---- MODULE Spec2Model ----
(***************************************************************************)
(* A model of the VectorDB CRUD service: the Joi request schemas and the   *)
(* validate middleware (middleware/validation.js), the route handlers      *)
(* (routes/vectors.js), the VectorService operations                       *)
(* (services/vectorService.js), the global error handler and the document  *)
(* collection they are run against.                                        *)
(*                                                                         *)
(* Representation.                                                         *)
(*  - A JavaScript object is a function from its keys to their values; an  *)
(*    absent key is a key outside DOMAIN.  {...a, ...b} is Spread(a, b).   *)
(*  - A vector is [length |-> n, data |-> d]: the service reads nothing of *)
(*    a vector but its length, so the elements are kept as one opaque      *)
(*    payload d and the length keeps its real value (100, 4096, ...).      *)
(*  - new Date().toISOString() is the reading of the clock `now`; ISO      *)
(*    strings of one format order as the instants they denote.             *)
(*  - uuidv4() draws the next unused identifier.                           *)
(***************************************************************************)
EXTENDS Integers, Sequences, FiniteSets, TLC

VARIABLES
  store,      \* the collection: _id -> [vector, metadata]
  nextId,     \* number of identifiers uuidv4 has handed out
  now,        \* the clock
  req,        \* the request handled last
  resp,       \* the response sent for it
  calls,      \* backend calls issued while handling it
  listing,    \* the listVectors call in flight, between its find and its count
  created,    \* history: _id -> body it was created with, until updated or deleted
  deleted,    \* history: ids whose deleteVector succeeded
  inflight,   \* updateVector and deleteVector calls awaiting the backend
  astraDB,    \* the AstraDBConnection singleton: client, db, collection, isConnected
  vectorService, \* the VectorService singleton: collection
  backend,    \* the clients and collection handles the process has made
  tasks,      \* the asynchronous calls in progress, each at one of its awaits
  util        \* the VectorUtils call made last: its arguments, locals and outcome

connVars == <<astraDB, vectorService, backend, tasks>>

vars == <<store, nextId, now, req, resp, calls, listing, created, deleted, inflight,
          astraDB, vectorService, backend, tasks, util>>

----------------------------------------------------------------------------
(* Bounds of the model *)

MaxIds == 2
MaxTime == 1

(* Program constants *)

MinVectorDimensions == 100
MaxVectorDimensions == 4096
MinUpdateDimensions == 1

Ids == 1..MaxIds

----------------------------------------------------------------------------
(* JavaScript objects *)

EmptyObject == [k \in {} |-> TRUE]

Has(o, k) == k \in DOMAIN o

Spread(a, b) == [k \in DOMAIN a \cup DOMAIN b |-> IF k \in DOMAIN b THEN b[k] ELSE a[k]]

Prop(k, v) == [x \in {k} |-> v]

Vec(n, d) == [length |-> n, data |-> d]

NoData == [none |-> TRUE]

----------------------------------------------------------------------------
(* Request bodies the clients send *)

SourceTypes == {"journal", "mood", "activity", "therapy", "meditation", "other"}

MetaA == [source_type |-> "journal", source_id |-> "s1", user_id |-> "u1"]

MetaB == [source_type |-> "mood", source_id |-> "s2", user_id |-> "u2",
          dimensions |-> 7, tags |-> <<"t1">>, confidence_score |-> 1]

MetaNoUser == [source_type |-> "journal", source_id |-> "s1", confidence_score |-> 2]

MetaBadType == [source_type |-> "bogus", source_id |-> "s1", user_id |-> "u1"]

MetaUnknownKey == [source_type |-> "journal", source_id |-> "s1", user_id |-> "u1",
                   created_at |-> 0]

CreateBodies ==
  {[vector |-> Vec(100, "a"), metadata |-> MetaA],
   [vector |-> Vec(4096, "b"), metadata |-> MetaB],
   [vector |-> Vec(99, "a"), metadata |-> MetaNoUser],
   [vector |-> Vec(4097, "b"), metadata |-> MetaBadType],
   [vector |-> Vec(100, "a"), metadata |-> MetaUnknownKey],
   [metadata |-> MetaA]}

UpdateBodies ==
  {[vector |-> Vec(1, "c")],
   [metadata |-> [tags |-> <<"t2">>]],
   [vector |-> Vec(1, "c"), metadata |-> [user_id |-> "u3", confidence_score |-> 0]],
   EmptyObject,
   [vector |-> Vec(0, "c"), metadata |-> [confidence_score |-> 2, source_type |-> "bogus"]],
   [metadata |-> [created_at |-> 0]]}

----------------------------------------------------------------------------
(* Joi schemas.  SchemaErrors lists the violations in the order Joi meets  *)
(* them: the keys of an object in schema order, then its unknown keys.     *)

Detail(path, type) == [field |-> path, type |-> type]

(* Joi.array().min(min) with no .max(max) *)
ArrayErrors_NoMax(path, v, min, max) ==
  IF v.length < min THEN <<Detail(path, "array.min")>> ELSE <<>>

ArrayErrors(path, v, min, max) ==
  IF v.length < min THEN <<Detail(path, "array.min")>>
  ELSE IF v.length > max THEN <<Detail(path, "array.max")>>
  ELSE <<>>

RequiredErrors(path, o, k, required) ==
  IF required /\ ~Has(o, k) THEN <<Detail(path, "any.required")>> ELSE <<>>

SourceTypeErrors(m, required) ==
  IF ~Has(m, "source_type") THEN RequiredErrors("metadata.source_type", m, "source_type", required)
  ELSE IF m.source_type \notin SourceTypes THEN <<Detail("metadata.source_type", "any.only")>>
  ELSE <<>>

DimensionsErrors(m) ==
  IF Has(m, "dimensions") /\ m.dimensions < 1
  THEN <<Detail("metadata.dimensions", "number.min")>> ELSE <<>>

ConfidenceErrors(m) ==
  IF ~Has(m, "confidence_score") THEN <<>>
  ELSE IF m.confidence_score < 0 THEN <<Detail("metadata.confidence_score", "number.min")>>
  ELSE IF m.confidence_score > 1 THEN <<Detail("metadata.confidence_score", "number.max")>>
  ELSE <<>>

UnknownErrors(path, o, known) ==
  IF DOMAIN o \subseteq known THEN <<>>
  ELSE <<Detail(path \o (CHOOSE k \in DOMAIN o : k \notin known), "object.unknown")>>

VectorMetadataKeys == {"source_type", "source_id", "content_preview", "user_id",
                       "model_version", "dimensions", "tags", "confidence_score"}

UpdateMetadataKeys == VectorMetadataKeys \ {"dimensions"}

vectorSchema(body) ==
  (IF Has(body, "vector")
   THEN ArrayErrors("vector", body.vector, MinVectorDimensions, MaxVectorDimensions)
   ELSE <<Detail("vector", "any.required")>>)
  \o (IF Has(body, "metadata")
      THEN SourceTypeErrors(body.metadata, TRUE)
           \o RequiredErrors("metadata.source_id", body.metadata, "source_id", TRUE)
           \o RequiredErrors("metadata.user_id", body.metadata, "user_id", TRUE)
           \o DimensionsErrors(body.metadata)
           \o ConfidenceErrors(body.metadata)
           \o UnknownErrors("metadata.", body.metadata, VectorMetadataKeys)
      ELSE <<Detail("metadata", "any.required")>>)
  \o UnknownErrors("", body, {"vector", "metadata"})

updateVectorSchema(body) ==
  (IF Has(body, "vector")
   THEN ArrayErrors("vector", body.vector, MinUpdateDimensions, MaxVectorDimensions)
   ELSE <<>>)
  \o (IF Has(body, "metadata")
      THEN SourceTypeErrors(body.metadata, FALSE)
           \o ConfidenceErrors(body.metadata)
           \o UnknownErrors("metadata.", body.metadata, UpdateMetadataKeys)
      ELSE <<>>)
  \o UnknownErrors("", body, {"vector", "metadata"})

(* The metadata of the value Joi returns for a valid create body:          *)
(* model_version: Joi.string().default('unknown') filled in when absent.   *)
MetadataValue(metadata) == Spread([model_version |-> "unknown"], metadata)

(* schema.validate(req.body) with Joi's default options: abortEarly, so    *)
(* error.details holds the first violation only.                           *)
JoiValidate(errors) ==
  IF errors = <<>> THEN [error |-> FALSE, details |-> <<>>]
  ELSE [error |-> TRUE, details |-> <<errors[1]>>]

----------------------------------------------------------------------------
(* The collection *)

BackendError == "backend unavailable"

insertOne(coll, id, doc) == [i \in DOMAIN coll \cup {id} |-> IF i = id THEN doc ELSE coll[i]]

findOne(coll, id) == IF id \in DOMAIN coll THEN [found |-> TRUE, doc |-> coll[id]]
                     ELSE [found |-> FALSE, doc |-> NoData]

(* findOneAndUpdate with {upsert: true} *)
findOneAndUpdate_Upsert(coll, id, updateDoc) ==
  LET after == IF id \in DOMAIN coll THEN Spread(coll[id], updateDoc) ELSE updateDoc
  IN  [coll |-> insertOne(coll, id, after), found |-> TRUE, doc |-> after]

(* findOneAndUpdate({_id}, {$set: updateDoc}, {returnDocument: 'after'}):  *)
(* $set replaces each named top-level field by the given value; no upsert. *)
findOneAndUpdate(coll, id, updateDoc) ==
  IF id \in DOMAIN coll
  THEN LET after == Spread(coll[id], updateDoc)
       IN  [coll |-> [coll EXCEPT ![id] = after], found |-> TRUE, doc |-> after]
  ELSE [coll |-> coll, found |-> FALSE, doc |-> NoData]

(* deleteOne that reports the deletion and keeps the document *)
deleteOne_Kept(coll, id) ==
  [coll |-> coll, deletedCount |-> IF id \in DOMAIN coll THEN 1 ELSE 0]

deleteOne(coll, id) ==
  IF id \in DOMAIN coll
  THEN [coll |-> [i \in DOMAIN coll \ {id} |-> coll[i]], deletedCount |-> 1]
  ELSE [coll |-> coll, deletedCount |-> 0]

----------------------------------------------------------------------------
(* VectorService.  Each operation yields the collection after it and       *)
(* either the value returned or the message of the Error thrown.           *)

Returned(coll, value) == [coll |-> coll, threw |-> FALSE, value |-> value, message |-> ""]

Threw(coll, message) == [coll |-> coll, threw |-> TRUE, value |-> NoData, message |-> message]

(* {id: doc._id, vector: doc.vector, metadata: doc.metadata}; a key whose  *)
(* value is undefined is not serialised.                                   *)
Record(id, doc) ==
  Spread([id |-> id], [k \in DOMAIN doc \cap {"vector", "metadata"} |-> doc[k]])

(* CreateDocument with the client's metadata spread last *)
CreateDocument_ClientLast(vectorData, t1, t2) ==
  [vector |-> vectorData.vector,
   metadata |-> Spread([dimensions |-> vectorData.vector.length,
                        created_at |-> t1,
                        updated_at |-> t2],
                       vectorData.metadata)]

CreateDocument(vectorData, t1, t2) ==
  [vector |-> vectorData.vector,
   metadata |-> Spread(vectorData.metadata,
                       [dimensions |-> vectorData.vector.length,
                        created_at |-> t1,
                        updated_at |-> t2])]

createVector(coll, vectorData, uuid, t1, t2, up) ==
  LET document == CreateDocument(vectorData, t1, t2)
  IN  IF up THEN Returned(insertOne(coll, uuid, document),
                         Spread(Record(uuid, document), [insertedId |-> uuid]))
      ELSE Threw(coll, "Failed to create vector: " \o BackendError)

getVectorById(coll, id, up) ==
  LET result == findOne(coll, id)
  IN  IF ~up THEN Threw(coll, "Failed to get vector: " \o BackendError)
      ELSE IF ~result.found THEN Threw(coll, "Failed to get vector: " \o "Vector not found")
      ELSE Returned(coll, Record(id, result.doc))

UpdateDoc(updateData, t) ==
  LET withVector == IF Has(updateData, "vector")
                    THEN [vector |-> updateData.vector] ELSE EmptyObject
      metadata == Spread(Spread(updateData.metadata, [updated_at |-> t]),
                         IF Has(updateData, "vector")
                         THEN [dimensions |-> updateData.vector.length]
                         ELSE EmptyObject)
  IN  IF Has(updateData, "metadata")
      THEN Spread(withVector, [metadata |-> metadata])
      ELSE withVector

updateVector(coll, id, updateData, t, up) ==
  LET result == findOneAndUpdate(coll, id, UpdateDoc(updateData, t))
  IN  IF ~up THEN Threw(coll, "Failed to update vector: " \o BackendError)
      ELSE IF ~result.found THEN Threw(coll, "Failed to update vector: " \o "Vector not found")
      ELSE Returned(result.coll, Record(id, result.doc))

deleteVector(coll, id, up) ==
  LET result == deleteOne(coll, id)
  IN  IF ~up THEN Threw(coll, "Failed to delete vector: " \o BackendError)
      ELSE IF result.deletedCount = 0
           THEN Threw(coll, "Failed to delete vector: " \o "Vector not found")
      ELSE Returned(result.coll, [deleted |-> TRUE, id |-> id])

----------------------------------------------------------------------------
(* Batch insert *)

MaxBatchSize == 100

ValidItemA == [vector |-> Vec(100, "a"), metadata |-> MetaA]

ValidItemB == [vector |-> Vec(4096, "b"), metadata |-> MetaB]

InvalidItem == [vector |-> Vec(99, "a"), metadata |-> MetaNoUser]

BatchBodies ==
  {[vectors |-> <<ValidItemA>>],
   [vectors |-> <<ValidItemB, ValidItemA>>],
   [vectors |-> <<>>],
   [vectors |-> <<ValidItemA, InvalidItem>>],
   EmptyObject}

Prefixed(prefix, details) ==
  [i \in DOMAIN details |-> Detail(prefix \o details[i].field, details[i].type)]

(* The violations of items[lo..hi], item by item in array order. *)
RECURSIVE ItemsErrors(_, _, _)
ItemsErrors(items, lo, hi) ==
  IF lo > hi THEN <<>>
  ELSE IF lo = hi
       THEN Prefixed("vectors." \o ToString(lo - 1) \o ".", vectorSchema(items[lo]))
       ELSE ItemsErrors(items, lo, (lo + hi) \div 2)
            \o ItemsErrors(items, (lo + hi) \div 2 + 1, hi)

(* batchSchema with no .max(MAX_BATCH_SIZE) on the array *)
batchSchema_NoMax(body) ==
  (IF ~Has(body, "vectors") THEN <<Detail("vectors", "any.required")>>
   ELSE ItemsErrors(body.vectors, 1, Len(body.vectors))
        \o (IF Len(body.vectors) < 1 THEN <<Detail("vectors", "array.min")>> ELSE <<>>))
  \o UnknownErrors("", body, {"vectors"})

batchSchema(body) ==
  (IF ~Has(body, "vectors") THEN <<Detail("vectors", "any.required")>>
   ELSE ItemsErrors(body.vectors, 1, Len(body.vectors))
        \o (IF Len(body.vectors) < 1 THEN <<Detail("vectors", "array.min")>>
            ELSE IF Len(body.vectors) > MaxBatchSize THEN <<Detail("vectors", "array.max")>>
            ELSE <<>>))
  \o UnknownErrors("", body, {"vectors"})

(* The clock of the k-th new Date() of a call that began at t, when the    *)
(* clock ticks once after the first `tickAfter` readings.                  *)
Reading(t, k, tickAfter) == IF k <= tickAfter THEN t ELSE t + 1

BatchDocuments(vectorsData, t, tickAfter) ==
  [i \in DOMAIN vectorsData |->
     CreateDocument(vectorsData[i], Reading(t, 2 * i - 1, tickAfter),
                    Reading(t, 2 * i, tickAfter))]

(* insertMany(documents): the backend stores the first `confirmed` of them *)
(* and reports that count.                                                 *)
insertMany(coll, firstId, documents, confirmed) ==
  [coll |-> [i \in DOMAIN coll \cup (firstId + 1)..(firstId + confirmed) |->
               IF i \in DOMAIN coll THEN coll[i] ELSE documents[i - firstId]],
   insertedCount |-> confirmed,
   insertedIds |-> [i \in 1..confirmed |-> firstId + i]]

(* createVectorsBatch reporting the number of documents it sent *)
createVectorsBatch_CountsDocuments(coll, vectorsData, firstId, t, tickAfter, confirmed, up) ==
  LET documents == BatchDocuments(vectorsData, t, tickAfter)
      result == insertMany(coll, firstId, documents, confirmed)
  IN  IF ~up THEN Threw(coll, "Failed to create vectors batch: " \o BackendError)
      ELSE Returned(result.coll,
                    [inserted_count |-> Len(documents),
                     inserted_ids |-> result.insertedIds,
                     vectors |-> [i \in DOMAIN documents |-> Record(firstId + i, documents[i])]])

(* createVectorsBatch returning the records of the confirmed inserts only *)
createVectorsBatch_ConfirmedOnly(coll, vectorsData, firstId, t, tickAfter, confirmed, up) ==
  LET documents == BatchDocuments(vectorsData, t, tickAfter)
      result == insertMany(coll, firstId, documents, confirmed)
  IN  IF ~up THEN Threw(coll, "Failed to create vectors batch: " \o BackendError)
      ELSE Returned(result.coll,
                    [inserted_count |-> result.insertedCount,
                     inserted_ids |-> result.insertedIds,
                     vectors |-> [i \in 1..confirmed |-> Record(firstId + i, documents[i])]])

createVectorsBatch(coll, vectorsData, firstId, t, tickAfter, confirmed, up) ==
  LET documents == BatchDocuments(vectorsData, t, tickAfter)
      result == insertMany(coll, firstId, documents, confirmed)
  IN  IF ~up THEN Threw(coll, "Failed to create vectors batch: " \o BackendError)
      ELSE Returned(result.coll,
                    [inserted_count |-> result.insertedCount,
                     inserted_ids |-> result.insertedIds,
                     vectors |-> [i \in DOMAIN documents |-> Record(firstId + i, documents[i])]])

----------------------------------------------------------------------------
(* Similarity search *)

DefaultLimit == 10

MaxLimit == 100

SimilarityBodies ==
  {[vector |-> Vec(100, "q")],
   [vector |-> Vec(4096, "q"), limit |-> 1, filters |-> [user_id |-> "u1"]],
   [vector |-> Vec(100, "q"), limit |-> 1,
    filters |-> [source_type |-> "mood", tags |-> <<"t1">>, created_after |-> 0,
                 created_before |-> 1]],
   [vector |-> Vec(99, "q"), limit |-> MaxLimit + 1],
   [limit |-> 1, filters |-> [source_type |-> "bogus"]]}

LimitErrors(o) ==
  IF ~Has(o, "limit") THEN <<>>
  ELSE IF o.limit < 1 THEN <<Detail("limit", "number.min")>>
  ELSE IF o.limit > MaxLimit THEN <<Detail("limit", "number.max")>>
  ELSE <<>>

FilterKeys == {"user_id", "source_type", "source_id", "tags", "created_after", "created_before"}

similaritySearchSchema(body) ==
  (IF Has(body, "vector")
   THEN ArrayErrors("vector", body.vector, MinVectorDimensions, MaxVectorDimensions)
   ELSE <<Detail("vector", "any.required")>>)
  \o LimitErrors(body)
  \o (IF Has(body, "filters")
      THEN (IF Has(body.filters, "source_type") /\ body.filters.source_type \notin SourceTypes
            THEN <<Detail("filters.source_type", "any.only")>> ELSE <<>>)
           \o UnknownErrors("filters.", body.filters, FilterKeys)
      ELSE <<>>)
  \o UnknownErrors("", body, {"vector", "limit", "filters"})

(* A date in a request body is an ISO string, kept as the clock reading it *)
(* denotes, or a count of milliseconds; Joi.date() takes both.  Epoch is   *)
(* the count 0: the instant before every reading of the clock, and the one *)
(* date a valid body can hold that `if (value)` takes for false.           *)
Epoch == -1

Truthy(date) == date # Epoch

(* A filter maps a document path to the constraint on it.  The strings the *)
(* schema lets through are not empty and an array is truthy, so            *)
(* `if (filters.k)` is Has(filters, k) for them; a date can be falsy.      *)
SimilarityFilter(filters) ==
  LET f1 == IF Has(filters, "user_id") THEN Prop("metadata.user_id", filters.user_id)
            ELSE EmptyObject
      f2 == IF Has(filters, "source_type")
            THEN Spread(f1, Prop("metadata.source_type", filters.source_type)) ELSE f1
      f3 == IF Has(filters, "source_id")
            THEN Spread(f2, Prop("metadata.source_id", filters.source_id)) ELSE f2
      f4 == IF Has(filters, "tags")
            THEN Spread(f3, Prop("metadata.tags", Prop("$in", filters.tags))) ELSE f3
      f5 == IF Has(filters, "created_after") /\ Truthy(filters.created_after)
            THEN Spread(f4, Prop("metadata.created_at", Prop("$gte", filters.created_after)))
            ELSE f4
      f6 == IF Has(filters, "created_before") /\ Truthy(filters.created_before)
            THEN Spread(f5, Prop("metadata.created_at",
                                 Spread(IF Has(f5, "metadata.created_at")
                                        THEN f5["metadata.created_at"] ELSE EmptyObject,
                                        Prop("$lte", filters.created_before))))
            ELSE f5
  IN  f6

MetadataKey(path) ==
  CASE path = "metadata.user_id" -> "user_id"
    [] path = "metadata.source_type" -> "source_type"
    [] path = "metadata.source_id" -> "source_id"
    [] path = "metadata.tags" -> "tags"
    [] path = "metadata.created_at" -> "created_at"
    [] path = "metadata.updated_at" -> "updated_at"

Satisfies(value, path, constraint) ==
  CASE path = "metadata.tags" ->
         \E i \in DOMAIN value, j \in DOMAIN constraint["$in"] : value[i] = constraint["$in"][j]
    [] path = "metadata.created_at" ->
         /\ Has(constraint, "$gte") => value >= constraint["$gte"]
         /\ Has(constraint, "$lte") => value <= constraint["$lte"]
    [] OTHER -> value = constraint

Matches(doc, filter) ==
  \A path \in DOMAIN filter :
    /\ Has(doc.metadata, MetadataKey(path))
    /\ Satisfies(doc.metadata[MetadataKey(path)], path, filter[path])

Matching(coll, filter) == {i \in DOMAIN coll : Matches(coll[i], filter)}

Min(a, b) == IF a <= b THEN a ELSE b

Max(a, b) == IF a >= b THEN a ELSE b

(* The orders in which a cursor can produce the documents of S. *)
Orders(S) ==
  {o \in [1..Cardinality(S) -> S] : \A i, j \in DOMAIN o : i # j => o[i] # o[j]}

Similarity(queryVector, vector) == [of |-> queryVector.data, to |-> vector.data]

(* find(filter, {sort: {$vector}, limit, includeSimilarity}); the ranking  *)
(* is the backend's.                                                       *)
(* find with no limit option *)
findSimilar_Unlimited(coll, filter, queryVector, limit, ranking) ==
  [k \in 1..Len(ranking) |->
     [id |-> ranking[k],
      doc |-> Spread(coll[ranking[k]],
                     Prop("$similarity", Similarity(queryVector, coll[ranking[k]].vector)))]]

findSimilar(coll, filter, queryVector, limit, ranking) ==
  [k \in 1..Min(limit, Len(ranking)) |->
     [id |-> ranking[k],
      doc |-> Spread(coll[ranking[k]],
                     Prop("$similarity", Similarity(queryVector, coll[ranking[k]].vector)))]]

findSimilarVectors(coll, queryVector, options, ranking, up) ==
  LET limit == IF Has(options, "limit") THEN options.limit ELSE DefaultLimit
      filters == IF Has(options, "filters") THEN options.filters ELSE EmptyObject
      filter == SimilarityFilter(filters)
      cursor == findSimilar(coll, filter, queryVector, limit, ranking)
      results == [k \in DOMAIN cursor |->
                    [id |-> cursor[k].id,
                     vector |-> cursor[k].doc.vector,
                     metadata |-> cursor[k].doc.metadata,
                     similarity_score |-> cursor[k].doc["$similarity"]]]
  IN  IF ~up THEN Threw(coll, "Failed to find similar vectors: " \o BackendError)
      ELSE Returned(coll, [query_vector_dimensions |-> queryVector.length,
                           results |-> results,
                           total_results |-> Len(results)])

(* const { vector, limit, filters } = req.body; { limit, filters } *)
SimilarityOptions(body) ==
  Spread(IF Has(body, "limit") THEN [limit |-> body.limit] ELSE EmptyObject,
         IF Has(body, "filters") THEN [filters |-> body.filters] ELSE EmptyObject)

----------------------------------------------------------------------------
(* Listing *)

Sorts == {"created_at", "-created_at", "updated_at", "-updated_at"}

ListQueries ==
  {EmptyObject,
   [page |-> 2, limit |-> 1, sort |-> "updated_at"],
   [user_id |-> "u1", limit |-> 1],
   [page |-> 0, limit |-> MaxLimit + 1],
   [sort |-> "dimensions"]}

querySchema(query) ==
  (IF Has(query, "page") /\ query.page < 1 THEN <<Detail("page", "number.min")>> ELSE <<>>)
  \o LimitErrors(query)
  \o (IF Has(query, "source_type") /\ query.source_type \notin SourceTypes
      THEN <<Detail("source_type", "any.only")>> ELSE <<>>)
  \o (IF Has(query, "sort") /\ query.sort \notin Sorts
      THEN <<Detail("sort", "any.only")>> ELSE <<>>)
  \o UnknownErrors("", query, {"page", "limit", "user_id", "source_type", "sort"})

(* The value Joi returns for a valid query: the defaults filled in. *)
QueryValue(query) ==
  Spread([page |-> 1, limit |-> DefaultLimit, sort |-> "-created_at"], query)

ListFilter(options) ==
  LET f1 == IF Has(options, "user_id") THEN Prop("metadata.user_id", options.user_id)
            ELSE EmptyObject
  IN  IF Has(options, "source_type")
      THEN Spread(f1, Prop("metadata.source_type", options.source_type)) ELSE f1

Skip(options) == (options.page - 1) * options.limit

Descending(sort) == sort \in {"-created_at", "-updated_at"}

SortField(sort) == IF sort \in {"created_at", "-created_at"} THEN "created_at" ELSE "updated_at"

(* An order the backend can produce for sort {metadata.<field>: direction}: *)
(* documents that hold the field come in its order, ties in any order.      *)
Sorted(coll, order, sort) ==
  \A i, j \in DOMAIN order :
    (/\ i < j
     /\ Has(coll[order[i]].metadata, SortField(sort))
     /\ Has(coll[order[j]].metadata, SortField(sort)))
    => IF Descending(sort)
       THEN coll[order[i]].metadata[SortField(sort)] >= coll[order[j]].metadata[SortField(sort)]
       ELSE coll[order[i]].metadata[SortField(sort)] <= coll[order[j]].metadata[SortField(sort)]

(* find(filter, {sort, limit, skip}), read to its end *)
find(coll, order, skip, limit) ==
  [k \in 1..(Min(skip + limit, Len(order)) - Min(skip, Len(order))) |->
     Record(order[skip + k], coll[order[skip + k]])]

(* countDocuments({}) : the count of the whole collection *)
countDocuments_All(coll, filter) == Cardinality(DOMAIN coll)

countDocuments(coll, filter) == Cardinality(Matching(coll, filter))

Ceil(a, b) == (a + b - 1) \div b

(* Pagination with total_pages rounded down *)
Pagination_Floor(options, total) ==
  [current_page |-> options.page,
   per_page |-> options.limit,
   total_items |-> total,
   total_pages |-> total \div options.limit,
   has_next |-> options.page * options.limit < total,
   has_prev |-> options.page > 1]

Pagination(options, total) ==
  [current_page |-> options.page,
   per_page |-> options.limit,
   total_items |-> total,
   total_pages |-> Ceil(total, options.limit),
   has_next |-> options.page * options.limit < total,
   has_prev |-> options.page > 1]

Idle == [active |-> FALSE]

----------------------------------------------------------------------------
(* Responses *)

Json(status, data) ==
  [sentBy |-> "route", status |-> status, error |-> "", details |-> <<>>, data |-> data]

NotFoundResponse ==
  [sentBy |-> "route", status |-> 404, error |-> "Vector not found",
   details |-> <<>>, data |-> NoData]

(* The global error handler.  The service throws plain Errors, and none of *)
(* the messages it builds here holds 'dimension': the default branch.      *)
errorHandler(message) ==
  [sentBy |-> "errorHandler", status |-> 500, error |-> message,
   details |-> <<>>, data |-> NoData]

(* catch (error) of the /:id routes *)
CatchById(message) ==
  IF message = "Vector not found" THEN NotFoundResponse ELSE errorHandler(message)

(* validate with unknown keys let through *)
validate_AllowUnknown(errors) ==
  LET v == JoiValidate(errors)
  IN  [failed |-> v.error /\ v.details[1].type # "object.unknown",
       response |-> [sentBy |-> "validate", status |-> 400, error |-> "Validation Error",
                     details |-> v.details, data |-> NoData]]

(* validate(schema) and validateQuery: the response when the body fails.  *)
(* validate reads `error` alone from schema.validate(req.body) and calls   *)
(* next() with req.body as the client sent it; validateQuery stores Joi's  *)
(* value in req.query.                                                     *)
validate(errors) ==
  LET v == JoiValidate(errors)
  IN  [failed |-> v.error,
       response |-> [sentBy |-> "validate", status |-> 400, error |-> "Validation Error",
                     details |-> v.details, data |-> NoData]]

validateQuery(errors) ==
  LET v == JoiValidate(errors)
  IN  [failed |-> v.error,
       response |-> [sentBy |-> "validateQuery", status |-> 400,
                     error |-> "Invalid query parameters",
                     details |-> v.details, data |-> NoData]]

----------------------------------------------------------------------------
(* Route handlers *)

Request(method, id, body) == [method |-> method, id |-> id, body |-> body]

Forget(h, id) == [i \in DOMAIN h \ {id} |-> h[i]]

Rejected(response) ==
  /\ resp' = response
  /\ calls' = 0
  /\ UNCHANGED <<store, nextId, now, listing, created, deleted, inflight,
                             connVars, util>>

\* POST /api/vectors
PostVector(body, up, d) ==
  LET v == validate(vectorSchema(body))
      r == createVector(store, body, nextId + 1, now, now + d, up)
  IN  /\ req' = Request("POST /", 0, body)
      /\ IF v.failed
         THEN Rejected(v.response)
         ELSE /\ nextId < MaxIds
              /\ now + d <= MaxTime
              /\ nextId' = nextId + 1
              /\ now' = now + d
              /\ calls' = 1
              /\ store' = r.coll
              /\ resp' = IF r.threw THEN errorHandler(r.message) ELSE Json(201, r.value)
              /\ created' = IF r.threw THEN created ELSE insertOne(created, nextId + 1, body)
              /\ UNCHANGED <<listing, deleted, inflight, connVars, util>>

\* POST /api/vectors/batch; the clock ticks after the tickAfter-th reading
\* of the call (or not at all), and the backend confirms `confirmed` inserts
PostBatch(body, up) ==
  LET v == validate(batchSchema(body))
      n == Len(body.vectors)
  IN  /\ req' = Request("POST /batch", 0, body)
      /\ IF v.failed
         THEN Rejected(v.response)
         ELSE /\ nextId + n <= MaxIds
              /\ \E tickAfter \in 1..(2 * n), confirmed \in 0..n :
                   LET ticks == IF tickAfter < 2 * n THEN 1 ELSE 0
                       r == createVectorsBatch(store, body.vectors, nextId, now,
                                               tickAfter, confirmed, up)
                   IN  /\ now + ticks <= MaxTime
                       /\ now' = now + ticks
                       /\ store' = r.coll
                       /\ resp' = IF r.threw THEN errorHandler(r.message)
                                  ELSE Json(201, r.value)
                       /\ created' =
                            IF r.threw THEN created
                            ELSE [i \in DOMAIN created \cup (DOMAIN r.coll \ DOMAIN store) |->
                                    IF i \in DOMAIN created THEN created[i]
                                    ELSE body.vectors[i - nextId]]
              /\ nextId' = nextId + n
              /\ calls' = 1
              /\ UNCHANGED <<listing, deleted, inflight, connVars, util>>

\* GET /api/vectors/:id
GetVector(id, up) ==
  LET r == getVectorById(store, id, up)
  IN  /\ req' = Request("GET /:id", id, EmptyObject)
      /\ calls' = 1
      /\ resp' = IF r.threw THEN CatchById(r.message) ELSE Json(200, r.value)
      /\ UNCHANGED <<store, nextId, now, listing, created, deleted, inflight,
                             connVars, util>>

\* PUT /api/vectors/:id
PutVector(id, body, up) ==
  LET v == validate(updateVectorSchema(body))
      r == updateVector(store, id, body, now, up)
  IN  /\ req' = Request("PUT /:id", id, body)
      /\ IF v.failed
         THEN Rejected(v.response)
         ELSE /\ calls' = 1
              /\ store' = r.coll
              /\ resp' = IF r.threw THEN CatchById(r.message) ELSE Json(200, r.value)
              /\ created' = IF r.threw THEN created ELSE Forget(created, id)
              /\ UNCHANGED <<nextId, now, listing, deleted, inflight, connVars, util>>

\* DELETE /api/vectors/:id
DeleteVector(id, up) ==
  LET r == deleteVector(store, id, up)
  IN  /\ req' = Request("DELETE /:id", id, EmptyObject)
      /\ calls' = 1
      /\ store' = r.coll
      /\ resp' = IF r.threw THEN CatchById(r.message) ELSE Json(200, r.value)
      /\ created' = IF r.threw THEN created ELSE Forget(created, id)
      /\ deleted' = IF r.threw THEN deleted ELSE deleted \cup {id}
      /\ UNCHANGED <<nextId, now, listing, inflight, connVars, util>>

\* POST /api/vectors/similarity
PostSimilarity(body, up) ==
  LET v == validate(similaritySearchSchema(body))
      options == SimilarityOptions(body)
      filter == SimilarityFilter(IF Has(options, "filters") THEN options.filters
                                 ELSE EmptyObject)
  IN  /\ req' = Request("POST /similarity", 0, body)
      /\ IF v.failed
         THEN Rejected(v.response)
         ELSE /\ calls' = 1
              /\ \E ranking \in Orders(Matching(store, filter)) :
                   LET r == findSimilarVectors(store, body.vector, options, ranking, up)
                   IN  resp' = IF r.threw THEN errorHandler(r.message) ELSE Json(200, r.value)
              /\ UNCHANGED <<store, nextId, now, listing, created, deleted, inflight,
                             connVars, util>>

\* GET /api/vectors, up to the end of the cursor
ListFind(query, up) ==
  LET v == validateQuery(querySchema(query))
      options == QueryValue(query)
      filter == ListFilter(options)
  IN  /\ ~listing.active
      /\ req' = Request("GET /", 0, query)
      /\ IF v.failed
         THEN Rejected(v.response)
         ELSE /\ calls' = 1
              /\ IF up
                 THEN /\ \E order \in Orders(Matching(store, filter)) :
                           /\ Sorted(store, order, options.sort)
                           /\ listing' = [active |-> TRUE, options |-> options,
                                          vectors |-> find(store, order, Skip(options),
                                                           options.limit)]
                      /\ resp' = Json(0, NoData)
                 ELSE /\ listing' = Idle
                      /\ resp' = errorHandler("Failed to list vectors: " \o BackendError)
              /\ UNCHANGED <<store, nextId, now, created, deleted, inflight, connVars, util>>

\* GET /api/vectors, from countDocuments to the response
ListCount(up) ==
  /\ listing.active
  /\ LET total == countDocuments(store, ListFilter(listing.options))
     IN  /\ req' = Request("GET /", 0, listing.options)
         /\ calls' = 2
         /\ resp' = IF up
                    THEN [sentBy |-> "route", status |-> 200, error |-> "", details |-> <<>>,
                          data |-> listing.vectors,
                          pagination |-> Pagination(listing.options, total)]
                    ELSE errorHandler("Failed to list vectors: " \o BackendError)
  /\ listing' = Idle
  /\ UNCHANGED <<store, nextId, now, created, deleted, inflight, connVars, util>>

(* PUT and DELETE /api/vectors/:id of requests served at the same time.    *)
(* A handler runs to the await of its one backend call (Send...): an update *)
(* has built its updateDoc, reading the clock, by then.  The backend takes  *)
(* the calls in flight in any order, and the handler continues to its       *)
(* response (Settle).  `raced` is history: whether a delete of the same id  *)
(* was in flight together with the update.                                  *)
MaxInflight == 2

DeleteInFlight(id) == \E c \in inflight : c.kind = "delete" /\ c.id = id

SendUpdate(id, body) ==
  /\ ~validate(updateVectorSchema(body)).failed
  /\ Cardinality(inflight) < MaxInflight
  /\ inflight' = inflight \cup {[kind |-> "update", id |-> id, body |-> body, t |-> now,
                                  raced |-> DeleteInFlight(id)]}
  /\ UNCHANGED <<store, nextId, now, req, resp, calls, listing, created, deleted,
               connVars, util>>

SendDelete(id) ==
  /\ Cardinality(inflight) < MaxInflight
  /\ inflight' = {IF c.kind = "update" /\ c.id = id THEN [c EXCEPT !.raced = TRUE] ELSE c :
                    c \in inflight}
                 \cup {[kind |-> "delete", id |-> id, body |-> EmptyObject, t |-> now,
                        raced |-> FALSE]}
  /\ UNCHANGED <<store, nextId, now, req, resp, calls, listing, created, deleted,
               connVars, util>>

Settle(call) ==
  LET r == IF call.kind = "update"
           THEN updateVector(store, call.id, call.body, call.t, TRUE)
           ELSE deleteVector(store, call.id, TRUE)
      method == IF call.kind = "update" THEN "PUT /:id" ELSE "DELETE /:id"
  IN  /\ call \in inflight
      /\ inflight' = inflight \ {call}
      /\ req' = Spread(Request(method, call.id, call.body), [raced |-> call.raced])
      /\ calls' = 1
      /\ store' = r.coll
      /\ resp' = IF r.threw THEN CatchById(r.message) ELSE Json(200, r.value)
      /\ created' = IF r.threw THEN created ELSE Forget(created, call.id)
      /\ deleted' = IF call.kind = "delete" /\ ~r.threw THEN deleted \cup {call.id} ELSE deleted
      /\ UNCHANGED <<nextId, now, listing, connVars, util>>

\* the clock advances
Tick ==
  /\ now < MaxTime
  /\ now' = now + 1
  /\ UNCHANGED <<store, nextId, req, resp, calls, listing, created, deleted, inflight,
               connVars, util>>

----------------------------------------------------------------------------
(* config/astradb.js: the AstraDBConnection singleton, and the calls that  *)
(* go through it.  An async function runs without interruption from one    *)
(* await to the next, and the calls in progress take turns at their awaits: *)
(* a task is one call in progress and its pc the await it waits at.  A     *)
(* client is the number of the DataAPIClient in the order of creation, a   *)
(* db is named by its client, and a collection handle by the client of the *)
(* db that made it and its own number.                                     *)

MaxTasks == 2
MaxClients == 2

Tasks == 1..MaxTasks

serviceVars == <<store, nextId, now, req, resp, calls, listing, created, deleted, inflight>>

NoHandle == [client |-> 0, handle |-> 0]

Handle(client, n) == [client |-> client, handle |-> n]

(* constructor() *)
AstraDBConnection ==
  [client |-> 0, db |-> 0, collection |-> NoHandle, isConnected |-> FALSE]

(* The process: whether process.env holds what validateConfig requires,    *)
(* the clients made so far (TRUE while open) and the handles made so far.  *)
Backend(env) == [env |-> env, clients |-> <<>>, handles |-> 0]

Closed(handle) == handle.client # 0 /\ ~backend.clients[handle.client]

Ok(handle) == [threw |-> FALSE, handle |-> handle, message |-> ""]

Fail(message) == [threw |-> TRUE, handle |-> NoHandle, message |-> message]

(* catch (error) of connect *)
ConnectionFailed(message) == Fail("Database connection failed: " \o message)

(* A call in progress: the function called from outside (op), the await it *)
(* is at (pc), the db or client its pending backend request was issued on  *)
(* (db), the collection handle of its pending or last query (handle),      *)
(* whether the client of that handle was closed when the query was issued  *)
(* (stale), the settled value of the connect() it awaits (value) and what  *)
(* the call returned or threw (result).                                    *)
IdleTask ==
  [op |-> "none", pc |-> "done", db |-> 0, handle |-> NoHandle, stale |-> FALSE,
   value |-> Ok(NoHandle), result |-> NoData]

At(t, pc) == tasks[t].pc = pc

Start(op, pc) == [IdleTask EXCEPT !.op = op, !.pc = pc]

(* connect(), up to its first await or its return *)
connect(t, op) ==
  IF astraDB.isConnected
  THEN /\ tasks' = [tasks EXCEPT ![t] = [Start(op, "connect") EXCEPT
                                            !.value = Ok(astraDB.collection)]]
       /\ UNCHANGED <<astraDB, backend>>
  ELSE IF ~backend.env
  THEN /\ tasks' = [tasks EXCEPT ![t] = [Start(op, "connect") EXCEPT
                      !.value = ConnectionFailed("Missing required environment variables")]]
       /\ UNCHANGED <<astraDB, backend>>
  ELSE /\ Len(backend.clients) < MaxClients
       /\ backend' = [backend EXCEPT !.clients = Append(@, TRUE)]
       /\ astraDB' = [astraDB EXCEPT !.client = Len(backend.clients) + 1,
                                     !.db = Len(backend.clients) + 1]
       /\ tasks' = [tasks EXCEPT ![t] = Start(op, "info")]

(* this.collection.<query>(...): the query is issued on the handle *)
Query(t, op, pc, handle) ==
  tasks' = [tasks EXCEPT ![t] = [Start(op, pc) EXCEPT !.handle = handle,
                                                       !.stale = Closed(handle)]]

Healthy == [status |-> "healthy", connected |-> TRUE, error |-> ""]

Unhealthy(message) == [status |-> "unhealthy", connected |-> FALSE, error |-> message]

(* app.get('/health'): the try branch, and the catch branch *)
HealthResponse(dbHealth) ==
  [code |-> 200, success |-> TRUE, status |-> "healthy", database |-> dbHealth]

HealthUnavailable(message) ==
  [code |-> 503, success |-> FALSE, status |-> "unhealthy", error |-> message]

(* catch (error) of the operation, here getVectorById *)
OperationFailed == "Failed to get vector: "

Finish(t, result) ==
  tasks' = [tasks EXCEPT ![t] = [@ EXCEPT !.pc = "done", !.result = result]]

\* astraDB.connect() called from outside: startServer
Connect(t) ==
  /\ At(t, "done")
  /\ connect(t, "connect")
  /\ UNCHANGED <<serviceVars, vectorService, util>>

\* GET /health: healthCheck() up to its first await
HealthCheck(t) ==
  /\ At(t, "done")
  /\ IF ~astraDB.isConnected
     THEN connect(t, "healthCheck")
     ELSE Query(t, "healthCheck", "findOne", astraDB.collection)
          /\ UNCHANGED <<astraDB, backend>>
  /\ UNCHANGED <<serviceVars, vectorService, util>>

\* an operation of VectorService, up to the first await of its initialize()
Operation(t) ==
  /\ At(t, "done")
  /\ IF vectorService.collection = NoHandle
     THEN connect(t, "operation")
     ELSE /\ tasks' = [tasks EXCEPT ![t] = Start("operation", "initialize")]
          /\ UNCHANGED <<astraDB, backend>>
  /\ UNCHANGED <<serviceVars, vectorService, util>>

\* the operation resumes after `await this.initialize()` and makes its
\* backend call on this.collection
Initialized(t) ==
  /\ At(t, "initialize")
  /\ Query(t, "operation", "call", vectorService.collection)
  /\ UNCHANGED <<serviceVars, astraDB, vectorService, backend, util>>

\* connect(): db.info() has settled, either way; createCollection is called
Info(t) ==
  /\ At(t, "info")
  /\ tasks' = [tasks EXCEPT ![t] = [@ EXCEPT !.pc = "createCollection", !.db = astraDB.db]]
  /\ UNCHANGED <<serviceVars, astraDB, vectorService, backend, util>>

\* connect(): createCollection has settled: it made the collection, threw
\* 'already exists', or threw something else
CreateCollection(t, outcome) ==
  /\ At(t, "createCollection")
  /\ IF outcome = "failed"
     THEN /\ tasks' = [tasks EXCEPT ![t] = [@ EXCEPT !.pc = "connect",
                                               !.value = ConnectionFailed(BackendError)]]
          /\ UNCHANGED <<astraDB, backend>>
     ELSE LET db == IF outcome = "created" THEN tasks[t].db ELSE astraDB.db
              collection == Handle(db, backend.handles + 1)
          IN  /\ backend' = [backend EXCEPT !.handles = @ + 1]
              /\ astraDB' = [astraDB EXCEPT !.collection = collection, !.isConnected = TRUE]
              /\ tasks' = [tasks EXCEPT ![t] = [@ EXCEPT !.pc = "connect",
                                                   !.value = Ok(collection)]]
  /\ UNCHANGED <<serviceVars, vectorService, util>>

\* the caller of connect() resumes with what connect() returned or threw
Resume(t) ==
  LET task == tasks[t]
  IN  /\ At(t, "connect")
      /\ CASE task.op = "connect" ->
                /\ Finish(t, task.value)
                /\ UNCHANGED vectorService
           [] task.op = "healthCheck" ->
                /\ IF task.value.threw
                   THEN Finish(t, HealthResponse(Unhealthy(task.value.message)))
                   ELSE Query(t, "healthCheck", "findOne", astraDB.collection)
                /\ UNCHANGED vectorService
           [] task.op = "operation" ->
                IF task.value.threw
                THEN /\ Finish(t, Fail(OperationFailed \o task.value.message))
                     /\ UNCHANGED vectorService
                ELSE /\ vectorService' = [collection |-> task.value.handle]
                     /\ tasks' = [tasks EXCEPT ![t] = Start("operation", "initialize")]
      /\ UNCHANGED <<serviceVars, astraDB, backend, util>>

\* healthCheck(): the probe query has settled; the route answers
FindOne(t, up) ==
  /\ At(t, "findOne")
  /\ Finish(t, HealthResponse(IF up /\ tasks[t].handle # NoHandle /\ ~Closed(tasks[t].handle)
                              THEN Healthy
                              ELSE Unhealthy(BackendError)))
  /\ UNCHANGED <<serviceVars, astraDB, vectorService, backend, util>>

\* the backend call of the operation has settled
Call(t, up) ==
  /\ At(t, "call")
  /\ Finish(t, IF up /\ ~Closed(tasks[t].handle) THEN Ok(tasks[t].handle)
               ELSE Fail(OperationFailed \o BackendError))
  /\ UNCHANGED <<serviceVars, astraDB, vectorService, backend, util>>

\* astraDB.disconnect() up to its await: client.close() is called, and has
\* closed the client by the time it settles, at the call at the earliest
Disconnect(t, early) ==
  /\ At(t, "done")
  /\ IF astraDB.client # 0
     THEN /\ tasks' = [tasks EXCEPT ![t] = [Start("disconnect", "close") EXCEPT
                                               !.db = astraDB.client]]
          /\ backend' = IF early THEN [backend EXCEPT !.clients[astraDB.client] = FALSE]
                        ELSE backend
     ELSE /\ tasks' = [tasks EXCEPT ![t] = Start("disconnect", "done")]
          /\ UNCHANGED backend
  /\ UNCHANGED <<serviceVars, astraDB, vectorService, util>>

\* disconnect(): client.close() has settled
Close(t, up) ==
  /\ At(t, "close")
  /\ Finish(t, NoData)
  /\ IF up
     THEN /\ backend' = [backend EXCEPT !.clients[tasks[t].db] = FALSE]
          /\ astraDB' = [astraDB EXCEPT !.isConnected = FALSE]
     ELSE UNCHANGED <<backend, astraDB>>
  /\ UNCHANGED <<serviceVars, vectorService, util>>

----------------------------------------------------------------------------
(* VectorUtils.  A utility takes its arguments as JavaScript values: an    *)
(* array element is a number (a finite one, NaN, Infinity or -Infinity) or *)
(* a value of another type, and an argument that is not an array is kept   *)
(* apart from the arrays.  A utility returns a value or throws an Error,   *)
(* and keeps nothing from one call to the next: a call starts from the     *)
(* state in which none has been made.                                      *)

MaxLen == 3
MaxVectors == 2

Arrays(S, n) == UNION {[1..k -> S] : k \in 0..n}

Return(value) == [threw |-> FALSE, value |-> value]

Throw(message) == [threw |-> TRUE, message |-> message]

Number(value) == [type |-> "number", value |-> value]

NotANumber == Number("NaN")

Infinities == {Number("Infinity"), Number("-Infinity")}

JsElements == {Number("1.5"), NotANumber, [type |-> "string", value |-> "three"]}
              \cup Infinities

Array(items) == [isArray |-> TRUE, items |-> items]

NotAnArray == [isArray |-> FALSE, items |-> <<>>]

(* typeof val === 'number' && !isNaN(val) *)
IsNumber(val) == val.type = "number" /\ val # NotANumber

(* isFinite(val) of a number *)
IsFinite(val) == val.type = "number" /\ val # NotANumber /\ val \notin Infinities

(* An optional number argument: left out (the default null) or given. *)
NotGiven == [given |-> FALSE, value |-> 0]

Given(n) == [given |-> TRUE, value |-> n]

(* parseInt(process.env.MAX_VECTOR_DIMENSIONS) || 4096; env is the integer *)
(* the variable holds, 0 when it is unset or holds no positive integer.    *)
MaxDimensions(env) == IF env = 0 THEN MaxVectorDimensions ELSE env

validateVector(vector, expectedDimensions, env) ==
  IF ~vector.isArray THEN Throw("Vector must be an array")
  ELSE IF Len(vector.items) = 0 THEN Throw("Vector cannot be empty")
  ELSE IF ~\A k \in DOMAIN vector.items : IsNumber(vector.items[k])
  THEN Throw("Vector must contain only valid numbers")
  ELSE IF /\ expectedDimensions.given /\ expectedDimensions.value # 0
          /\ Len(vector.items) # expectedDimensions.value
  THEN Throw("Vector must have exactly " \o ToString(expectedDimensions.value)
             \o " dimensions")
  ELSE IF Len(vector.items) > MaxDimensions(env)
  THEN Throw("Vector exceeds maximum dimensions: " \o ToString(MaxDimensions(env)))
  ELSE Return(TRUE)

isValidVector(vector) ==
  \A k \in DOMAIN vector :
    vector[k].type = "number" /\ vector[k] # NotANumber /\ IsFinite(vector[k])

(* The numeric utilities, on vectors of integers.  What JavaScript rounds  *)
(* is kept exact: a norm as the sum whose square root it is, a quotient as *)
(* its numerator and denominator.                                          *)
RECURSIVE Sum(_, _)
Sum(f, n) == IF n = 0 THEN 0 ELSE Sum(f, n - 1) + f[n]

Sqrt(x) == [sqrt |-> x]

Quotient(num, den) == [num |-> num, den |-> den]

DimensionMismatch == "Vectors must have the same dimensions"

(* dotProduct with no check of the lengths: a missing vectorB[i] is        *)
(* undefined and the sum NaN                                               *)
dotProduct_Unchecked(vectorA, vectorB) ==
  IF Len(vectorA) > Len(vectorB) THEN Return(NotANumber)
  ELSE Return(Number(ToString(Sum([k \in DOMAIN vectorA |-> vectorA[k] * vectorB[k]],
                                  Len(vectorA)))))

dotProduct(vectorA, vectorB) ==
  IF Len(vectorA) # Len(vectorB) THEN Throw(DimensionMismatch)
  ELSE Return(Number(ToString(Sum([k \in DOMAIN vectorA |-> vectorA[k] * vectorB[k]],
                                  Len(vectorA)))))

cosineSimilarity(vectorA, vectorB) ==
  LET n == Len(vectorA)
      dot == Sum([k \in 1..n |-> vectorA[k] * vectorB[k]], n)
      normA == Sum([k \in 1..n |-> vectorA[k] * vectorA[k]], n)
      normB == Sum([k \in 1..n |-> vectorB[k] * vectorB[k]], n)
  IN  IF Len(vectorA) # Len(vectorB) THEN Throw(DimensionMismatch)
      ELSE IF normA = 0 \/ normB = 0 THEN Return(Quotient(0, <<Sqrt(1), Sqrt(1)>>))
      ELSE Return(Quotient(dot, <<Sqrt(normA), Sqrt(normB)>>))

euclideanDistance(vectorA, vectorB) ==
  LET n == Len(vectorA)
  IN  IF Len(vectorA) # Len(vectorB) THEN Throw(DimensionMismatch)
      ELSE Return(Sqrt(Sum([k \in 1..n |-> (vectorA[k] - vectorB[k]) * (vectorA[k] - vectorB[k])],
                           n)))

calculateCentroid(vectors) ==
  LET dimensions == Len(vectors[1])
  IN  IF Len(vectors) = 0 THEN Throw("Cannot calculate centroid of empty vector set")
      ELSE IF ~\A v \in DOMAIN vectors : Len(vectors[v]) = dimensions
      THEN Throw("All vectors must have the same dimensions")
      ELSE Return([i \in 1..dimensions |->
                     Quotient(Sum([v \in DOMAIN vectors |-> vectors[v][i]], Len(vectors)),
                              Len(vectors))])

(* Array.prototype.slice(start, end) on integers: a negative index counts  *)
(* from the end, and both are clamped to the array.                        *)
SliceIndex(n, len) == IF n < 0 THEN Max(len + n, 0) ELSE Min(n, len)

(* slice that takes the element at `end` too *)
Slice_Inclusive(items, start, end) ==
  [k \in 1..(Min(SliceIndex(end, Len(items)) + 1, Len(items)) - SliceIndex(start, Len(items)))
     |-> items[SliceIndex(start, Len(items)) + k]]

Slice(items, start, end) ==
  [k \in 1..(SliceIndex(end, Len(items)) - SliceIndex(start, Len(items))) |->
     items[SliceIndex(start, Len(items)) + k]]

(* batch.map(processFn), processFn a function of the item alone *)
Map(batch, processFn) == [k \in DOMAIN batch |-> processFn[batch[k]]]

(* i += batchSize on doubles: past 2^53 in magnitude the sum is rounded    *)
(* back to i.  MaxSafeInteger stands for 2^53: it lies above every index   *)
(* and every batch size a call is made with.                               *)
MaxSafeInteger == 2 * MaxLen + 2

Increment(i, batchSize) ==
  IF i + batchSize < -MaxSafeInteger \/ i + batchSize > MaxSafeInteger THEN i
  ELSE i + batchSize

IdleUtil == [fn |-> "none"]

Applied(fn, arguments, outcome) == [fn |-> fn, arguments |-> arguments, outcome |-> outcome]

Running == util.fn = "batchProcess" /\ util.pc = "loop"

otherVars == <<serviceVars, connVars>>

ValidateVector(vector, expectedDimensions, env) ==
  /\ util = IdleUtil
  /\ util' = Applied("validateVector",
                     [vector |-> vector, expectedDimensions |-> expectedDimensions,
                      env |-> env],
                     validateVector(vector, expectedDimensions, env))
  /\ UNCHANGED otherVars

IsValidVector(vector) ==
  /\ util = IdleUtil
  /\ util' = Applied("isValidVector", [vector |-> vector], Return(isValidVector(vector)))
  /\ UNCHANGED otherVars

CosineSimilarity(vectorA, vectorB) ==
  /\ util = IdleUtil
  /\ util' = Applied("cosineSimilarity", [vectorA |-> vectorA, vectorB |-> vectorB],
                     cosineSimilarity(vectorA, vectorB))
  /\ UNCHANGED otherVars

EuclideanDistance(vectorA, vectorB) ==
  /\ util = IdleUtil
  /\ util' = Applied("euclideanDistance", [vectorA |-> vectorA, vectorB |-> vectorB],
                     euclideanDistance(vectorA, vectorB))
  /\ UNCHANGED otherVars

DotProduct(vectorA, vectorB) ==
  /\ util = IdleUtil
  /\ util' = Applied("dotProduct", [vectorA |-> vectorA, vectorB |-> vectorB],
                     dotProduct(vectorA, vectorB))
  /\ UNCHANGED otherVars

CalculateCentroid(vectors) ==
  /\ util = IdleUtil
  /\ util' = Applied("calculateCentroid", [vectors |-> vectors], calculateCentroid(vectors))
  /\ UNCHANGED otherVars

\* batchProcess(vectors, processFn, batchSize) up to the first test of its
\* loop; `odd` tells whether the passes made so far are odd in number
BatchProcess(vectors, processFn, batchSize) ==
  /\ util = IdleUtil
  /\ util' = [fn |-> "batchProcess", pc |-> "loop",
              arguments |-> [vectors |-> vectors, processFn |-> processFn,
                             batchSize |-> batchSize],
              i |-> 0, results |-> <<>>, odd |-> FALSE]
  /\ UNCHANGED otherVars

\* one pass of the loop: i < vectors.length held
BatchIterate ==
  /\ Running
  /\ util.i < Len(util.arguments.vectors)
  /\ LET batch == Slice(util.arguments.vectors, util.i, util.i + util.arguments.batchSize)
         batchResults == Map(batch, util.arguments.processFn)
     IN  util' = [util EXCEPT !.results = @ \o batchResults,
                              !.i = Increment(@, util.arguments.batchSize),
                              !.odd = ~@]
  /\ UNCHANGED otherVars

\* i < vectors.length failed: return results
BatchReturn ==
  /\ Running
  /\ ~(util.i < Len(util.arguments.vectors))
  /\ util' = [util EXCEPT !.pc = "returned"]
  /\ UNCHANGED otherVars

----------------------------------------------------------------------------

Init ==
  /\ store = EmptyObject
  /\ nextId = 0
  /\ now = 0
  /\ req = Request("none", 0, EmptyObject)
  /\ resp = Json(0, NoData)
  /\ calls = 0
  /\ listing = Idle
  /\ created = EmptyObject
  /\ deleted = {}
  /\ inflight = {}
  /\ astraDB = AstraDBConnection
  /\ vectorService = [collection |-> NoHandle]
  /\ backend = Backend(TRUE)
  /\ tasks = [t \in Tasks |-> IdleTask]
  /\ util = IdleUtil

Next ==
  \/ Tick
  \/ \E body \in CreateBodies, up \in BOOLEAN, d \in 0..1 : PostVector(body, up, d)
  \/ \E body \in BatchBodies, up \in BOOLEAN : PostBatch(body, up)
  \/ \E id \in Ids, up \in BOOLEAN : GetVector(id, up)
  \/ \E id \in Ids, body \in UpdateBodies, up \in BOOLEAN : PutVector(id, body, up)
  \/ \E id \in Ids, up \in BOOLEAN : DeleteVector(id, up)
  \/ \E body \in SimilarityBodies, up \in BOOLEAN : PostSimilarity(body, up)

Spec == Init /\ [][Next]_vars

(* The write and read-back operations on valid requests with the backend   *)
(* up.  A rejected request and a failed backend call leave the collection, *)
(* the identifiers and the clock as they were, so the collections reached  *)
(* here are those Spec reaches.                                            *)
ValidCreateBodies == {body \in CreateBodies : vectorSchema(body) = <<>>}

ValidUpdateBodies == {body \in UpdateBodies : updateVectorSchema(body) = <<>>}

NextCrud ==
  \/ Tick
  \/ \E body \in ValidCreateBodies : PostVector(body, TRUE, 0)
  \/ \E id \in Ids : GetVector(id, TRUE)
  \/ \E id \in Ids, body \in ValidUpdateBodies : PutVector(id, body, TRUE)
  \/ \E id \in Ids : DeleteVector(id, TRUE)

SpecCrud == Init /\ [][NextCrud]_vars

(* The four validated routes on every body the schemas reject, and on     *)
(* valid bodies that fill and change the collection.                      *)
ValidateUpdateBodies == (UpdateBodies \ ValidUpdateBodies) \cup {[vector |-> Vec(1, "c")]}

NextValidate ==
  \/ \E body \in CreateBodies : PostVector(body, TRUE, 0)
  \/ \E body \in BatchBodies : PostBatch(body, TRUE)
  \/ \E id \in Ids, body \in ValidateUpdateBodies : PutVector(id, body, TRUE)
  \/ \E body \in SimilarityBodies : PostSimilarity(body, TRUE)

SpecValidate == Init /\ [][NextValidate]_vars

(* The service with its read operations, one request at a time: a listing *)
(* makes its two backend calls with no other request between them.  What   *)
(* its find returns depends on the collection at that call alone.          *)
QueryUpdateBodies == {[metadata |-> [tags |-> <<"t2">>]]}

ValidSimilarityBodies == {body \in SimilarityBodies : similaritySearchSchema(body) = <<>>}

ValidListQueries == {query \in ListQueries : querySchema(query) = <<>>}

NextQuery ==
  \/ ~listing.active /\ Tick
  \/ \E body \in ValidCreateBodies : ~listing.active /\ PostVector(body, TRUE, 0)
  \/ \E id \in Ids : ~listing.active /\ GetVector(id, TRUE)
  \/ \E id \in Ids, body \in QueryUpdateBodies : ~listing.active /\ PutVector(id, body, TRUE)
  \/ \E id \in Ids : ~listing.active /\ DeleteVector(id, TRUE)
  \/ \E body \in ValidSimilarityBodies : ~listing.active /\ PostSimilarity(body, TRUE)
  \/ \E query \in ValidListQueries : ListFind(query, TRUE)
  \/ ListCount(TRUE)

SpecQuery == Init /\ [][NextQuery]_vars

(* The four routes that take a vector, on vectors at both edges of each    *)
(* schema's length range.                                                  *)
CreateLengths == {MinVectorDimensions - 1, MinVectorDimensions,
                  MaxVectorDimensions, MaxVectorDimensions + 1}

UpdateLengths == {MinUpdateDimensions - 1, MinUpdateDimensions,
                  MaxVectorDimensions, MaxVectorDimensions + 1}

DimensionCreateBodies == {[vector |-> Vec(n, "a"), metadata |-> MetaA] : n \in CreateLengths}

DimensionBatchBodies == {[vectors |-> <<item>>] : item \in DimensionCreateBodies}

DimensionUpdateBodies == {[vector |-> Vec(n, "c")] : n \in UpdateLengths}

DimensionSimilarityBodies == {[vector |-> Vec(n, "q")] : n \in CreateLengths}

NextDimensions ==
  \/ \E body \in DimensionCreateBodies : PostVector(body, TRUE, 0)
  \/ \E body \in DimensionBatchBodies : PostBatch(body, TRUE)
  \/ \E id \in Ids, body \in DimensionUpdateBodies : PutVector(id, body, TRUE)
  \/ \E body \in DimensionSimilarityBodies : PostSimilarity(body, TRUE)

SpecDimensions == Init /\ [][NextDimensions]_vars

(* Batch create on batches of every size class: none, one, several, the    *)
(* largest the schema takes and one more.                                  *)
FullBatch == [vectors |-> [i \in 1..MaxBatchSize |-> ValidItemA]]

OversizeBatch == [vectors |-> [i \in 1..(MaxBatchSize + 1) |-> ValidItemA]]

BatchSizeBodies == BatchBodies \cup {FullBatch, OversizeBatch}

NextBatch ==
  \/ Tick
  \/ \E body \in BatchSizeBodies : PostBatch(body, TRUE)

SpecBatch == Init /\ [][NextBatch]_vars

(* Listing while other requests are served: listVectors awaits its find    *)
(* and its countDocuments one after the other, and a create or a delete of *)
(* another request can reach the backend between the two.                  *)
PageQueries ==
  {[page |-> p, limit |-> l] : p \in 1..3, l \in 1..2} \cup {[user_id |-> "u1"]}

NextListing ==
  \/ \E body \in ValidCreateBodies : PostVector(body, TRUE, 0)
  \/ \E id \in Ids : DeleteVector(id, TRUE)
  \/ \E query \in PageQueries : ListFind(query, TRUE)
  \/ ListCount(TRUE)

SpecListing == Init /\ [][NextListing]_vars

(* Updates and deletes of requests served at the same time, on the ids the *)
(* service has handed out.  The clock stands still here: what the backend  *)
(* does with a call does not depend on the timestamps it carries.          *)
RaceUpdateBodies == {[vector |-> Vec(1, "c")], [metadata |-> [tags |-> <<"t2">>]]}

NextRace ==
  \/ PostVector([vector |-> Vec(100, "a"), metadata |-> MetaA], TRUE, 0)
  \/ \E id \in 1..nextId, body \in RaceUpdateBodies : SendUpdate(id, body)
  \/ \E id \in 1..nextId : SendDelete(id)
  \/ \E call \in inflight : Settle(call)

SpecRace == Init /\ [][NextRace]_vars

(* Similarity search over a collection that creates fill, with every       *)
(* filter field alone, both date bounds together, and each limit.          *)
FilterBodies ==
  {[vector |-> Vec(100, "q"), filters |-> filters] :
     filters \in {[user_id |-> "u1"],
                  [source_type |-> "mood"],
                  [source_id |-> "s1"],
                  [tags |-> <<"t1">>],
                  [created_after |-> 1],
                  [created_before |-> 0],
                  [created_after |-> 0, created_before |-> 0],
                  [created_after |-> Epoch],
                  EmptyObject}}

LimitBodies ==
  {[vector |-> Vec(100, "q")],
   [vector |-> Vec(4096, "q"), limit |-> 1],
   [vector |-> Vec(100, "q"), limit |-> 2, filters |-> [user_id |-> "u1"]]}

NextSimilarity ==
  \/ Tick
  \/ \E body \in ValidCreateBodies : PostVector(body, TRUE, 0)
  \/ \E body \in FilterBodies \cup LimitBodies : PostSimilarity(body, TRUE)

SpecSimilarity == Init /\ [][NextSimilarity]_vars

(* server.js.  The X-API-Key header of a request is absent, another key    *)
(* than the configured one, or the configured key.  authenticateApiKey is  *)
(* commented out and app.use('/api/vectors', vectorRoutes) mounts the      *)
(* router alone: the route runs whatever the header holds.                 *)
ApiKeys == {"", "invalid-key", "API_KEY"}

ApiVectors(apiKey, route) == route

NextApi ==
  \E apiKey \in ApiKeys :
    \/ \E body \in ValidCreateBodies : ApiVectors(apiKey, PostVector(body, TRUE, 0))
    \/ \E id \in Ids : ApiVectors(apiKey, GetVector(id, TRUE))
    \/ \E id \in Ids, body \in ValidUpdateBodies : ApiVectors(apiKey, PutVector(id, body, TRUE))
    \/ \E id \in Ids : ApiVectors(apiKey, DeleteVector(id, TRUE))

SpecApi == Init /\ [][NextApi]_vars

(* The connection singleton under calls served at the same time: startup,  *)
(* health checks, operations of the service and disconnect, with a backend *)
(* whose requests can fail, and with or without the environment variables  *)
(* validateConfig requires.                                                *)
InitConnection ==
  /\ store = EmptyObject
  /\ nextId = 0
  /\ now = 0
  /\ req = Request("none", 0, EmptyObject)
  /\ resp = Json(0, NoData)
  /\ calls = 0
  /\ listing = Idle
  /\ created = EmptyObject
  /\ deleted = {}
  /\ inflight = {}
  /\ astraDB = AstraDBConnection
  /\ vectorService = [collection |-> NoHandle]
  /\ \E env \in BOOLEAN : backend = Backend(env)
  /\ tasks = [t \in Tasks |-> IdleTask]
  /\ util = IdleUtil

NextConnection ==
  \E t \in Tasks :
    \/ Connect(t)
    \/ HealthCheck(t)
    \/ Operation(t)
    \/ Initialized(t)
    \/ Info(t)
    \/ \E outcome \in {"created", "exists", "failed"} : CreateCollection(t, outcome)
    \/ Resume(t)
    \/ \E up \in BOOLEAN : FindOne(t, up)
    \/ \E up \in BOOLEAN : Call(t, up)
    \/ \E early \in BOOLEAN : Disconnect(t, early)
    \/ \E up \in BOOLEAN : Close(t, up)

SpecConnection == InitConnection /\ [][NextConnection]_vars

(* The calls that connect, served at the same time by a backend that       *)
(* answers every request: nothing fails and nothing disconnects.           *)
NextConnect ==
  \E t \in Tasks :
    \/ Connect(t)
    \/ HealthCheck(t)
    \/ Operation(t)
    \/ Initialized(t)
    \/ Info(t)
    \/ \E outcome \in {"created", "exists"} : CreateCollection(t, outcome)
    \/ Resume(t)
    \/ FindOne(t, TRUE)
    \/ Call(t, TRUE)

SpecConnect == Init /\ [][NextConnect]_vars

(* validateVector and isValidVector on what is not an array and on every   *)
(* array of up to MaxLen elements, with the expected dimensions left out,  *)
(* zero, equal to the length and different from it, and with               *)
(* MAX_VECTOR_DIMENSIONS unset and set below MaxLen.                       *)
JsVectors == {NotAnArray} \cup {Array(items) : items \in Arrays(JsElements, MaxLen)}

ExpectedDimensions == {NotGiven} \cup {Given(n) : n \in 0..MaxLen}

EnvMaxDimensions == {0, MaxLen - 1}

NextValidateVector ==
  \/ \E vector \in JsVectors, expectedDimensions \in ExpectedDimensions,
        env \in EnvMaxDimensions :
       ValidateVector(vector, expectedDimensions, env)
  \/ \E vector \in Arrays(JsElements, MaxLen) : IsValidVector(vector)

SpecValidateVector == Init /\ [][NextValidateVector]_vars

(* The similarity utilities on every pair of integer vectors of up to      *)
(* MaxLen elements, and calculateCentroid on up to MaxVectors of them.     *)
NumVectors == Arrays({0, 2}, MaxLen)

NextVectorMath ==
  \/ \E vectorA, vectorB \in NumVectors : CosineSimilarity(vectorA, vectorB)
  \/ \E vectorA, vectorB \in NumVectors : EuclideanDistance(vectorA, vectorB)
  \/ \E vectorA, vectorB \in NumVectors : DotProduct(vectorA, vectorB)
  \/ \E vectors \in Arrays(NumVectors, MaxVectors) : CalculateCentroid(vectors)

SpecVectorMath == Init /\ [][NextVectorMath]_vars

(* batchProcess on every list of up to MaxLen items, with batch sizes from *)
(* negative to larger than the list.  The loop of a call runs a pass at a  *)
(* time; nothing else runs while it does.                                  *)
Items == {1, 2}

ProcessFns == {[x \in Items |-> 2 * x], [x \in Items |-> 0]}

BatchSizes == -2..(MaxLen + 1)

NextBatchProcess ==
  \/ \E vectors \in Arrays(Items, MaxLen), processFn \in ProcessFns, batchSize \in BatchSizes :
       BatchProcess(vectors, processFn, batchSize)
  \/ BatchIterate
  \/ BatchReturn

SpecBatchProcess == Init /\ [][NextBatchProcess]_vars

(* The call keeps running: the pass or the return that is due is taken. *)
SpecBatchProcessFair ==
  SpecBatchProcess /\ WF_vars(BatchIterate) /\ WF_vars(BatchReturn)

----------------------------------------------------------------------------
(* Properties *)

IdsOf(records) == {records[k].id : k \in DOMAIN records}

NotFoundBy(operation) == "Failed to " \o operation \o " vector: Vector not found"

\* C1: a record read back by getVectorById, with no update or delete since
\* its creation, holds the vector it was created with, and its
\* metadata.dimensions is the length of that vector whatever dimensions the
\* client sent.
C1_RoundTrip ==
  [][\A id \in Ids :
       (GetVector(id, TRUE) /\ id \in DOMAIN created)
       => /\ resp'.status = 200
          /\ resp'.data.id = id
          /\ resp'.data.vector = created[id].vector
          /\ resp'.data.metadata.dimensions = created[id].vector.length]_vars

C1_Witness ==
  /\ req.method = "GET /:id"
  /\ req.id \in DOMAIN created
  /\ Has(created[req.id].metadata, "dimensions")
  /\ created[req.id].metadata.dimensions # created[req.id].vector.length
  /\ resp.status = 200

\* C2: a successful updateVector(id, {metadata: M}) leaves the vector as it
\* was and keeps the value of every metadata key outside M, updated_at aside.
C2_MetadataMerged ==
  [][\A id \in Ids, body \in UpdateBodies :
       (/\ PutVector(id, body, TRUE)
        /\ resp'.status = 200
        /\ Has(body, "metadata") /\ ~Has(body, "vector"))
       => /\ store'[id].vector = store[id].vector
          /\ \A k \in DOMAIN store[id].metadata \ (DOMAIN body.metadata \cup {"updated_at"}) :
               /\ Has(store'[id].metadata, k)
               /\ store'[id].metadata[k] = store[id].metadata[k]]_vars

\* C3: every stored record has metadata.dimensions equal to the length of its
\* vector.
C3_DimensionsMatch ==
  \A id \in DOMAIN store :
    /\ Has(store[id].metadata, "dimensions")
    /\ store[id].metadata.dimensions = store[id].vector.length

\* C4: every successful updateVector that supplies a vector, metadata or both
\* sets the stored metadata.updated_at to the time of the update.
C4_UpdatedAtRefreshed ==
  [][\A id \in Ids, body \in UpdateBodies :
       (PutVector(id, body, TRUE) /\ resp'.status = 200 /\ DOMAIN body # {})
       => /\ Has(store'[id].metadata, "updated_at")
          /\ store'[id].metadata.updated_at = now]_vars

\* C5: metadata.created_at of a record keeps its value for as long as the
\* record exists.
C5_CreatedAtKept ==
  [][\A id \in DOMAIN store \cap DOMAIN store' :
       Has(store[id].metadata, "created_at")
       => /\ Has(store'[id].metadata, "created_at")
          /\ store'[id].metadata.created_at = store[id].metadata.created_at]_vars

\* C6: GET, PUT and DELETE /api/vectors/:id on an id that is not stored answer
\* 404 'Vector not found'.
C6_AbsentIs404 ==
  [][\A id \in Ids :
       (/\ id \notin DOMAIN store
        /\ \/ GetVector(id, TRUE)
           \/ DeleteVector(id, TRUE)
           \/ \E body \in UpdateBodies :
                updateVectorSchema(body) = <<>> /\ PutVector(id, body, TRUE))
       => /\ resp'.status = 404
          /\ resp'.error = "Vector not found"]_vars

\* C7: once deleteVector(id) has succeeded the id is not stored again:
\* getVectorById(id) fails with not found, and no listVectors or
\* findSimilarVectors call made afterwards returns the id.
C7_DeletedStaysAbsent ==
  /\ [](/\ deleted \cap DOMAIN store = {}
        /\ \A id \in deleted : getVectorById(store, id, TRUE).message = NotFoundBy("get")
        /\ (req.method = "GET /:id" /\ req.id \in deleted)
           => resp.error = NotFoundBy("get")
        /\ (req.method = "POST /similarity" /\ resp.status = 200)
           => IdsOf(resp.data.results) \cap deleted = {})
  /\ [][\A query \in ListQueries :
          (ListFind(query, TRUE) /\ listing'.active)
          => IdsOf(listing'.vectors) \cap deleted = {}]_vars

C7_Witness ==
  /\ deleted # {}
  /\ nextId = MaxIds
  /\ DOMAIN store # {}
  /\ req.method = "POST /similarity"
  /\ resp.status = 200
  /\ Len(resp.data.results) > 0

\* C8: updateVector and deleteVector on an id that is not stored fail with
\* not found and leave the collection as it was.
C8_AbsentUnchanged ==
  [][\A id \in Ids :
       id \notin DOMAIN store
       => /\ DeleteVector(id, TRUE)
             => (store' = store /\ resp'.error = NotFoundBy("delete"))
          /\ \A body \in UpdateBodies :
               (updateVectorSchema(body) = <<>> /\ PutVector(id, body, TRUE))
               => (store' = store /\ resp'.error = NotFoundBy("update"))]_vars

C8_Witness ==
  /\ req.method = "PUT /:id"
  /\ req.id \notin DOMAIN store
  /\ Has(req.body, "vector")
  /\ resp.error = NotFoundBy("update")

Violates(request) ==
  CASE request.method = "POST /" -> vectorSchema(request.body) # <<>>
    [] request.method = "POST /batch" -> batchSchema(request.body) # <<>>
    [] request.method = "PUT /:id" -> updateVectorSchema(request.body) # <<>>
    [] request.method = "POST /similarity" -> similaritySearchSchema(request.body) # <<>>
    [] OTHER -> FALSE

\* C9: a create, batch create, update or similarity request whose body
\* violates its schema is answered 400 'Validation Error', issues no backend
\* call and leaves the collection as it was.
C9_RejectedBeforeBackend ==
  /\ [](Violates(req) => (resp.status = 400 /\ resp.error = "Validation Error" /\ calls = 0))
  /\ [][Violates(req') => store' = store]_vars

C9_Witness ==
  /\ req.method = "POST /batch"
  /\ Violates(req)
  /\ Has(req.body, "vectors") /\ Len(req.body.vectors) = 2
  /\ resp.status = 400
  /\ calls = 0
  /\ DOMAIN store # {}

FieldsOf(details) == {details[k].field : k \in DOMAIN details}

\* C10: the validation failure returned for a request lists one entry for
\* every field of the body that violates the schema.
C10_EveryViolationListed ==
  /\ (resp.sentBy = "validate" /\ req.method = "POST /")
     => FieldsOf(resp.details) = FieldsOf(vectorSchema(req.body))
  /\ (resp.sentBy = "validate" /\ req.method = "PUT /:id")
     => FieldsOf(resp.details) = FieldsOf(updateVectorSchema(req.body))

InRange(vector, lo, hi) == lo <= vector.length /\ vector.length <= hi

VectorFields == {"vector"} \cup {"vectors." \o ToString(i) \o ".vector" : i \in 0..MaxBatchSize}

NamesVector(response) ==
  /\ response.sentBy = "validate"
  /\ response.status = 400
  /\ FieldsOf(response.details) \cap VectorFields # {}

\* C11: create, batch create and similarity search reject a vector exactly
\* when its length is outside [100, MAX_DIM], update exactly when it is outside
\* [1, MAX_DIM]; every stored vector has a length in [1, MAX_DIM], a record
\* enters the collection with a length in [100, MAX_DIM], and only an update
\* that supplies a vector changes the vector of a record.
C11_VectorLengthBounds ==
  /\ [](/\ \A id \in DOMAIN store : InRange(store[id].vector, 1, MaxVectorDimensions)
        /\ (req.method \in {"POST /", "POST /similarity"} /\ Has(req.body, "vector"))
           => (NamesVector(resp) <=> ~InRange(req.body.vector, 100, MaxVectorDimensions))
        /\ (req.method = "PUT /:id" /\ Has(req.body, "vector"))
           => (NamesVector(resp) <=> ~InRange(req.body.vector, 1, MaxVectorDimensions))
        /\ (req.method = "POST /batch" /\ Has(req.body, "vectors"))
           => (NamesVector(resp)
               <=> \E i \in DOMAIN req.body.vectors :
                     ~InRange(req.body.vectors[i].vector, 100, MaxVectorDimensions)))
  /\ [][\A id \in DOMAIN store' :
          /\ id \notin DOMAIN store => InRange(store'[id].vector, 100, MaxVectorDimensions)
          /\ (id \in DOMAIN store /\ store'[id].vector # store[id].vector)
             => (req'.method = "PUT /:id" /\ req'.id = id /\ Has(req'.body, "vector"))]_vars

C11_Witness ==
  /\ req.method = "PUT /:id"
  /\ resp.status = 200
  /\ Has(req.body, "vector")
  /\ req.body.vector.length = 1
  /\ \E id \in DOMAIN store : store[id].vector.length = 1
  /\ \E id \in DOMAIN store : store[id].vector.length = MaxVectorDimensions

Acceptable(body) ==
  /\ DOMAIN body = {"vectors"}
  /\ 1 <= Len(body.vectors) /\ Len(body.vectors) <= 100
  /\ \A i \in DOMAIN body.vectors : vectorSchema(body.vectors[i]) = <<>>

\* C12: a batch create request passes validation exactly when it holds
\* between 1 and MAX_BATCH_SIZE items and every item passes the create rules;
\* a batch that is empty, too large or holds an invalid item is answered 400
\* and none of its items is inserted.
C12_BatchAllOrNothing ==
  /\ [](\A body \in BatchSizeBodies : validate(batchSchema(body)).failed <=> ~Acceptable(body))
  /\ [][\A body \in BatchSizeBodies :
          PostBatch(body, TRUE)
          => IF Acceptable(body)
             THEN resp'.status = 201 /\ calls' = 1
             ELSE /\ resp'.status = 400
                  /\ resp'.sentBy = "validate"
                  /\ calls' = 0
                  /\ store' = store]_vars

C12_Witness ==
  /\ req = Request("POST /batch", 0, OversizeBatch)
  /\ resp.status = 400
  /\ calls = 0
  /\ Cardinality(DOMAIN store) = 2

\* C13: createVectorsBatch on n valid items makes one backend call and returns
\* n records in input order: record i holds the vector of item i and
\* metadata.dimensions equal to its length, and the ids of the records are
\* pairwise distinct and none of them is an id already stored.
C13_BatchRecords ==
  [][\A body \in BatchSizeBodies :
       (PostBatch(body, TRUE) /\ Acceptable(body))
       => LET n == Len(body.vectors)
              records == resp'.data.vectors
          IN  /\ calls' = 1
              /\ Len(records) = n
              /\ \A i \in 1..n :
                   /\ records[i].vector = body.vectors[i].vector
                   /\ records[i].metadata.dimensions = body.vectors[i].vector.length
              /\ \A i, j \in 1..n : i # j => records[i].id # records[j].id
              /\ IdsOf(records) \cap DOMAIN store = {}]_vars

C13_Witness ==
  /\ req.method = "POST /batch"
  /\ resp.status = 201
  /\ Len(resp.data.vectors) = 2
  /\ resp.data.vectors[1].vector.length # resp.data.vectors[2].vector.length
  /\ resp.data.vectors[1].metadata.dimensions = MaxVectorDimensions
  /\ resp.data.vectors[1].id # resp.data.vectors[2].id

\* C14: the inserted_count that createVectorsBatch returns is the number of
\* inserts the backend confirmed, also when that is less than the number of
\* records returned with it.
C14_InsertedCountAsConfirmed ==
  [][\A body \in BatchSizeBodies :
       (PostBatch(body, TRUE) /\ Acceptable(body))
       => /\ resp'.data.inserted_count = Cardinality(DOMAIN store' \ DOMAIN store)
          /\ resp'.data.inserted_count = Len(resp'.data.inserted_ids)
          /\ Len(resp'.data.vectors) = Len(body.vectors)]_vars

C14_Witness ==
  /\ req.method = "POST /batch"
  /\ resp.status = 201
  /\ Len(resp.data.vectors) = 2
  /\ resp.data.inserted_count = 1
  /\ Cardinality(DOMAIN store) = 1

\* ceil(total / limit): the least number of pages of `limit` that hold `total`
PagesFor(total, limit) == CHOOSE k \in 0..total : k * limit >= total /\ (k = 0 \/ (k - 1) * limit < total)

\* C15: listVectors fetches the page from position (page - 1) * limit of the
\* sorted matching records, and returns total_items = the count of matching
\* records, total_pages = ceil(total / limit), has_prev = (page > 1) and
\* has_next = (page * limit < total); total 25 with limit 10 gives 3 pages,
\* page 1 with a next and no previous page, page 3 the reverse.
C15_Pagination ==
  /\ [][\A query \in PageQueries :
          (ListFind(query, TRUE) /\ listing'.active)
          => LET options == listing'.options
                 matching == Matching(store, ListFilter(options))
                 first == (options.page - 1) * options.limit
             IN  \E order \in Orders(matching) :
                   /\ Sorted(store, order, options.sort)
                   /\ Len(listing'.vectors)
                        = Min(options.limit, Max(0, Cardinality(matching) - first))
                   /\ \A k \in DOMAIN listing'.vectors :
                        listing'.vectors[k].id = order[first + k]]_vars
  /\ [][ListCount(TRUE)
        => LET options == listing.options
               total == Cardinality(Matching(store, ListFilter(options)))
               p == resp'.pagination
           IN  /\ p.current_page = options.page
               /\ p.per_page = options.limit
               /\ p.total_items = total
               /\ p.total_pages = PagesFor(total, options.limit)
               /\ p.has_prev = (options.page > 1)
               /\ p.has_next = (options.page * options.limit < total)]_vars
  /\ [](/\ Pagination([page |-> 1, limit |-> 10], 25).total_pages = 3
        /\ Pagination([page |-> 1, limit |-> 10], 25).has_next
        /\ ~Pagination([page |-> 1, limit |-> 10], 25).has_prev
        /\ ~Pagination([page |-> 3, limit |-> 10], 25).has_next
        /\ Pagination([page |-> 3, limit |-> 10], 25).has_prev
        /\ Skip([page |-> 3, limit |-> 10]) = 20)

C15_Witness ==
  /\ req.method = "GET /"
  /\ resp.status = 200
  /\ resp.pagination.current_page = 2
  /\ resp.pagination.per_page = 1
  /\ resp.pagination.total_items = 2
  /\ resp.pagination.total_pages = 2
  /\ resp.pagination.has_prev /\ ~resp.pagination.has_next
  /\ Len(resp.data) = 1

\* C16: when no other request is served between the find and the
\* countDocuments of a listVectors call, total_items is the number of records
\* matching the filter and the page holds min(limit, max(0, total_items - skip))
\* of them; with a create or a delete between the two calls the page and the
\* count can disagree (C16_Witness).
C16_ConsistentWithoutWrites ==
  [][(ListCount(TRUE) /\ req.method = "GET /")
     => LET options == listing.options
            matching == Matching(store, ListFilter(options))
            total == resp'.pagination.total_items
        IN  /\ total = Cardinality(matching)
            /\ Len(resp'.data) = Min(options.limit, Max(0, total - Skip(options)))
            /\ IdsOf(resp'.data) \subseteq matching]_vars

\* a disagreement: a returned record that total_items does not count
C16_Witness ==
  /\ req.method = "GET /"
  /\ resp.status = 200
  /\ Len(resp.data) = 1
  /\ resp.pagination.total_items = 0
  /\ resp.data[1].id \in deleted

\* the other disagreement: a record counted in total_items and on no page
C16_CountedOnNoPage ==
  /\ req.method = "GET /"
  /\ resp.status = 200
  /\ resp.pagination.current_page = 1
  /\ Len(resp.data) = 0
  /\ resp.pagination.total_items = 1

RacedDelete(request) == Has(request, "raced") /\ request.raced

SuppliedFilter(filters) ==
  LET Eq(k) == IF Has(filters, k) THEN Prop("metadata." \o k, filters[k]) ELSE EmptyObject
      range == Spread(IF Has(filters, "created_after")
                      THEN Prop("$gte", filters.created_after) ELSE EmptyObject,
                      IF Has(filters, "created_before")
                      THEN Prop("$lte", filters.created_before) ELSE EmptyObject)
  IN  Spread(Spread(Spread(Eq("user_id"), Eq("source_type")), Eq("source_id")),
             Spread(IF Has(filters, "tags")
                    THEN Prop("metadata.tags", Prop("$in", filters.tags)) ELSE EmptyObject,
                    IF range # EmptyObject
                    THEN Prop("metadata.created_at", range) ELSE EmptyObject))

\* C18: the filter findSimilarVectors builds for a request holds one
\* constraint for each filter field the request supplies: equality on user_id,
\* source_type and source_id, $in on tags, and one range on
\* metadata.created_at with $gte when created_after is given and $lte when
\* created_before is given; a field not supplied adds nothing.
C18_OneConstraintPerField ==
  (req.method = "POST /similarity" /\ resp.status = 200 /\ Has(req.body, "filters"))
  => SimilarityFilter(req.body.filters) = SuppliedFilter(req.body.filters)

\* the two date bounds of one request, composed into one range
C18_BothBounds ==
  /\ req.method = "POST /similarity"
  /\ resp.status = 200
  /\ Has(req.body, "filters")
  /\ DOMAIN req.body.filters = {"created_after", "created_before"}
  /\ SimilarityFilter(req.body.filters)
       = Prop("metadata.created_at", Spread(Prop("$gte", 0), Prop("$lte", 0)))

\* C19: findSimilarVectors(q, {limit}) returns at most limit results, 10 when
\* limit is omitted, in the order the backend produced the matching documents;
\* each result carries id, vector, metadata and similarity_score;
\* query_vector_dimensions is the length of q and total_results the number of
\* results returned.
C19_SimilarityResults ==
  /\ [](LET coll == [i \in 1..(DefaultLimit + 1) |-> CreateDocument(ValidItemA, 0, 0)]
            ranking == [k \in 1..(DefaultLimit + 1) |-> k]
            found == findSimilarVectors(coll, Vec(100, "q"), EmptyObject, ranking, TRUE)
        IN  Len(found.value.results) = 10 /\ found.value.total_results = 10)
  /\ [][\A body \in FilterBodies \cup LimitBodies :
          PostSimilarity(body, TRUE)
          => LET limit == IF Has(body, "limit") THEN body.limit ELSE 10
                 filters == IF Has(body, "filters") THEN body.filters ELSE EmptyObject
                 matching == Matching(store, SimilarityFilter(filters))
                 data == resp'.data
             IN  /\ resp'.status = 200
                 /\ Len(data.results) = Min(limit, Cardinality(matching))
                 /\ \E ranking \in Orders(matching) :
                      \A k \in DOMAIN data.results :
                        /\ data.results[k].id = ranking[k]
                        /\ data.results[k].vector = store[ranking[k]].vector
                        /\ data.results[k].metadata = store[ranking[k]].metadata
                 /\ \A k \in DOMAIN data.results :
                      DOMAIN data.results[k] = {"id", "vector", "metadata", "similarity_score"}
                 /\ data.query_vector_dimensions = body.vector.length
                 /\ data.total_results = Len(data.results)]_vars

C19_Witness ==
  /\ req.method = "POST /similarity"
  /\ resp.status = 200
  /\ Has(req.body, "limit") /\ req.body.limit = 1
  /\ Cardinality(DOMAIN store) = 2
  /\ resp.data.total_results = 1
  /\ resp.data.query_vector_dimensions = MaxVectorDimensions

\* C20: a request to /api/vectors without an API key is answered 401 'API key
\* required' and one with another key than the configured one 401 'Invalid
\* API key'; neither reaches an operation of the vector service.
C20_ApiKeyRequired ==
  [][\A apiKey \in ApiKeys \ {"API_KEY"}, id \in Ids :
       ApiVectors(apiKey, GetVector(id, TRUE))
       => /\ resp'.status = 401
          /\ resp'.error = (IF apiKey = "" THEN "API key required" ELSE "Invalid API key")
          /\ calls' = 0]_vars

Created(request, response) ==
  /\ request.method \in {"POST /", "POST /batch"}
  /\ response.status = 201

\* the records a successful create or batch create returned, each with the
\* metadata the client sent for it
CreatedRecords(request, response) ==
  IF request.method = "POST /"
  THEN {[sent |-> request.body.metadata, record |-> response.data]}
  ELSE {[sent |-> request.body.vectors[i].metadata, record |-> response.data.vectors[i]] :
          i \in DOMAIN request.body.vectors}

\* C21: a record created by create or batch create from metadata that omits
\* model_version is stored and returned with metadata.model_version = "unknown".
C21_ModelVersionDefault ==
  Created(req, resp)
  => \A c \in CreatedRecords(req, resp) :
       ~Has(c.sent, "model_version")
       => /\ Has(c.record.metadata, "model_version")
          /\ c.record.metadata.model_version = "unknown"
          /\ c.record.metadata = Spread(MetadataValue(c.sent), c.record.metadata)
          /\ c.record.id \in DOMAIN store
             => /\ Has(store[c.record.id].metadata, "model_version")
                /\ store[c.record.id].metadata.model_version = "unknown"

\* C22: a record produced by createVector or createVectorsBatch has
\* metadata.created_at equal to metadata.updated_at when it is created, also
\* when the clock advances during the call.
C22_CreatedEqualsUpdated ==
  Created(req, resp)
  => \A c \in CreatedRecords(req, resp) :
       c.record.metadata.created_at = c.record.metadata.updated_at

\* the collection a call has received from connect() and holds or uses
Received(t) ==
  IF At(t, "connect") /\ ~tasks[t].value.threw THEN {tasks[t].value.handle}
  ELSE IF tasks[t].pc \in {"findOne", "call"} THEN {tasks[t].handle}
  ELSE IF tasks[t].op = "connect" /\ At(t, "done") THEN {tasks[t].result.handle}
  ELSE {}

\* C28: when several callers invoke connect() before the first call has
\* completed, one client and one collection handle are created and every
\* caller receives that collection; once isConnected is true connect()
\* returns the collection there is and creates nothing.
C28_OneConnection ==
  /\ [](/\ Len(backend.clients) <= 1
        /\ backend.handles <= 1
        /\ Cardinality(UNION {Received(t) : t \in Tasks}) <= 1)
  /\ [][\A t \in Tasks :
          (Connect(t) /\ astraDB.isConnected)
          => /\ backend' = backend
             /\ astraDB' = astraDB
             /\ tasks'[t].value = Ok(astraDB.collection)]_vars

\* C29: whenever isConnected holds, collection is not null and belongs to a
\* client that has not been closed; and an operation of VectorService never
\* issues its backend call on a collection handle of a closed client.
C29_ConnectedMeansUsable ==
  /\ astraDB.isConnected
     => (astraDB.collection # NoHandle /\ ~Closed(astraDB.collection))
  /\ \A t \in Tasks : (tasks[t].op = "operation" /\ At(t, "call")) => ~tasks[t].stale

\* an operation started after disconnect() has completed, making its backend
\* call on the handle the service kept from the client that was closed
C29_StaleHandleUsed ==
  \E t, u \in Tasks :
    /\ tasks[u].op = "disconnect" /\ At(u, "done")
    /\ ~astraDB.isConnected
    /\ tasks[t].op = "operation" /\ At(t, "call")
    /\ tasks[t].stale
    /\ tasks[t].handle = vectorService.collection

\* C30: healthCheck never raises and returns {status: 'healthy', connected:
\* true} exactly when the connection is there or could be made and the probe
\* query succeeded, {status: 'unhealthy', connected: false, error} otherwise;
\* GET /health answers 503 exactly when the database is unhealthy.
C30_HealthStatus ==
  [][\A t \in Tasks :
       /\ \A up \in BOOLEAN :
            FindOne(t, up)
            => IF up /\ ~Closed(tasks[t].handle)
               THEN tasks'[t].result = HealthResponse(Healthy)
               ELSE tasks'[t].result = HealthUnavailable(BackendError)
       /\ (Resume(t) /\ tasks[t].op = "healthCheck" /\ tasks[t].value.threw)
          => tasks'[t].result = HealthUnavailable(tasks[t].value.message)]_vars

\* the outcome of validateVector as the claim orders it
ClaimedValidation(vector, expectedDimensions, env) ==
  IF ~vector.isArray THEN Throw("Vector must be an array")
  ELSE IF vector.items = <<>> THEN Throw("Vector cannot be empty")
  ELSE IF \E k \in DOMAIN vector.items : ~IsFinite(vector.items[k])
  THEN Throw("Vector must contain only valid numbers")
  ELSE IF expectedDimensions.given /\ Len(vector.items) # expectedDimensions.value
  THEN Throw("Vector must have exactly " \o ToString(expectedDimensions.value)
             \o " dimensions")
  ELSE IF Len(vector.items) > MaxDimensions(env)
  THEN Throw("Vector exceeds maximum dimensions: " \o ToString(MaxDimensions(env)))
  ELSE Return(TRUE)

\* C23: validateVector reports one error, the first that applies of: not an
\* array, empty, an element that is not a finite real number (a non-number,
\* NaN or +/-Infinity), a length other than expectedDim when one is given, a
\* length above the configured maximum; it succeeds when none applies.  Every
\* array isValidVector rejects is rejected by validateVector.
C23_ValidateVectorOrder ==
  util.fn = "validateVector"
  => /\ util.outcome = ClaimedValidation(util.arguments.vector,
                                         util.arguments.expectedDimensions,
                                         util.arguments.env)
     /\ (util.arguments.vector.isArray /\ ~isValidVector(util.arguments.vector.items))
        => util.outcome.threw

\* C24: for batchSize >= 1, batchProcess(items, fn, batchSize) returns what
\* mapping fn over items in one pass returns: as many results as items, result
\* i = fn(items[i]), whatever the batch size.
C24_BatchProcessIsMap ==
  (util.fn = "batchProcess" /\ util.pc = "returned" /\ util.arguments.batchSize >= 1)
  => /\ Len(util.results) = Len(util.arguments.vectors)
     /\ \A i \in DOMAIN util.results :
          util.results[i] = util.arguments.processFn[util.arguments.vectors[i]]

C24_Witness ==
  /\ util.fn = "batchProcess"
  /\ util.pc = "returned"
  /\ util.arguments.batchSize = 2
  /\ util.arguments.vectors = <<1, 2, 1>>
  /\ util.results = <<2, 4, 2>>
  /\ util.i = 4

\* C25: on vectors a, b of different lengths cosineSimilarity,
\* euclideanDistance and dotProduct throw the dimension-mismatch error and
\* return no number; calculateCentroid throws on an empty set and on a set
\* whose vectors differ in length.
C25_MismatchThrows ==
  /\ (/\ util.fn \in {"cosineSimilarity", "euclideanDistance", "dotProduct"}
      /\ Len(util.arguments.vectorA) # Len(util.arguments.vectorB))
     => (util.outcome.threw /\ util.outcome.message = DimensionMismatch
         /\ ~Has(util.outcome, "value"))
  /\ (/\ util.fn = "calculateCentroid"
      /\ \/ util.arguments.vectors = <<>>
         \/ \E v, w \in DOMAIN util.arguments.vectors :
              Len(util.arguments.vectors[v]) # Len(util.arguments.vectors[w]))
     => util.outcome.threw

C25_Witness ==
  /\ util.fn = "dotProduct"
  /\ Len(util.arguments.vectorA) = 2
  /\ Len(util.arguments.vectorB) = 3
  /\ util.outcome = Throw(DimensionMismatch)

\* C26: in every listVectors result has_next holds exactly when current_page <
\* total_pages and has_prev exactly when current_page > 1; with total_items = 0
\* total_pages is 0 and has_next false; a page beyond the last has has_next
\* false and, when no write came between the find and the count, no records.
C26_NextAndPrev ==
  /\ [][ListCount(TRUE)
        => LET p == resp'.pagination
           IN  /\ p.has_next <=> p.current_page < p.total_pages
               /\ p.has_prev <=> p.current_page > 1
               /\ p.total_items = 0 => (p.total_pages = 0 /\ ~p.has_next)
               /\ p.current_page > p.total_pages
                  => /\ ~p.has_next
                     /\ req.method = "GET /" => resp'.data = <<>>]_vars
  /\ [](\A total \in 0..25, page \in 1..4, limit \in {1, 2, 10, MaxLimit} :
          LET p == Pagination([page |-> page, limit |-> limit], total)
          IN  /\ p.has_next <=> page < p.total_pages
              /\ p.has_prev <=> page > 1
              /\ total = 0 => (p.total_pages = 0 /\ ~p.has_next)
              /\ page > p.total_pages
                 => (~p.has_next /\ Skip([page |-> page, limit |-> limit]) >= total))

C26_Witness ==
  /\ req.method = "GET /"
  /\ resp.status = 200
  /\ resp.pagination.current_page = 3
  /\ resp.pagination.total_pages = 2
  /\ resp.pagination.total_items = 2
  /\ ~resp.pagination.has_next /\ resp.pagination.has_prev
  /\ resp.data = <<>>

\* C27: batchProcess terminates for every finite item list and every integer
\* batchSize, 0 and the negative ones with a list that is not empty included:
\* a call that has started returns.
C27_BatchProcessTerminates ==
  Running ~> (util.fn = "batchProcess" /\ util.pc = "returned")

====
